---- MODULE Spec2Model ----
(***************************************************************************)
(* The activation-and-download notebook of the Planet API workshop:        *)
(* setup_session (a requests.Session with basic auth and a urllib3 Retry   *)
(* mounted on https://), search, _fetch_assets, activate, wait_for_active  *)
(* and download, run against a server that answers every attempt with a    *)
(* status of its choice.                                                   *)
(***************************************************************************)
EXTENDS Integers, Sequences, FiniteSets, TLC

VARIABLES
    api_key,    \* the api_key argument setup_session was called with, or None
    environ,    \* os.environ: the value of PL_API_KEY, or None when unset
    session,    \* the Session setup_session returned
    prog,       \* the notebook cells the caller runs, in order
    cell,       \* index in prog of the cell being run
    pc,         \* control point inside the running function
    results,    \* the feature list handed to activate / wait_for_active / download
    pages,      \* the search backend: the chain of result pages
    status,     \* server side: status of the named asset of every feature
    req,        \* the request session.get / session.post is sending, or NoReq
    sent,       \* the Authorization the latest attempt carried, or NoAuth
    delay,      \* the sleep before the next attempt of the request, or NoDelay
    total,      \* Retry.total of the Retry object of the request in flight
    attempts,   \* attempts made so far for the request in flight
    last,       \* the response to the latest attempt, or NoResponse
    prior429,   \* every response before the latest one was a 429
    outcome,    \* what the session call returned or raised, or NoOutcome
    i,          \* position of the for loop over results
    assets,     \* the local 'assets': the fetched status of the named asset
    statuses,   \* wait_for_active: the list comprehension being built
    active,     \* wait_for_active: the 'active' list
    round,      \* wait_for_active: passes of the while loop started
    polls,      \* wait_for_active: status fetches issued per position of results
    body,       \* search: the page held in the local 'body'
    next_url,   \* search: the local 'next_url'
    k,          \* search: position of the for loop over body['features']
    gen,        \* generator state of search / download
    pulls,      \* elements the caller has asked the generator for
    yielded,    \* what the generator has handed to the caller so far
    written,    \* download: chunks copied to the open file
    files,      \* the local file system: file name -> chunks written
    error,      \* the exception that ended the cell, or NoError
    workers,    \* the threads of the ThreadPoolExecutor: the request each one sends
    futures,    \* executor.map(make_request, ...): the state of every call
    work_queue  \* the executor's queue: the calls submitted and not yet taken

SetupVars == <<api_key, environ, session>>
PoolVars == <<workers, futures, work_queue>>

vars == <<SetupVars, prog, cell, pc, results, pages, status, req, sent, delay, total, attempts, last, prior429, outcome,
          i, assets, statuses, active, round, polls, body, next_url, k, gen,
          pulls, yielded, written, files, error, PoolVars>>

(***************************************************************************)
(* Bounds of the model.                                                    *)
(***************************************************************************)
MaxResults == 2
MaxPages == 3
MaxRounds == 5
MaxChunks == 2
PollDeadline == 2
\* the threaded cell: nthreads = 8 and range(100) in the notebook
nthreads == 2
NumRequests == 3

FeatIds == {"A", "B"}
PageBodies == {<<>>, <<"A">>, <<"A", "B">>, <<"B", "A">>, <<"A", "A">>}

\* Python's None, and a str; '' is Str("")
None == [none |-> TRUE]
Str(s) == [none |-> FALSE, str |-> s]

NoReq == [kind |-> "none"]
NoAuth == [basic |-> FALSE]
NoDelay == [source |-> "none"]
NoOutcome == [type |-> "none"]
NoResponse == [none |-> TRUE]
NoError == [type |-> "none", status_code |-> 0, kind |-> "none"]
\* body['_links'].get('_next'): None when the key is absent, '' or a page's url
NoLink == [link |-> "None"]
EmptyLink == [link |-> "empty"]
Url(p) == [link |-> "url", page |-> p]

(***************************************************************************)
(* setup_session: the retry policy mounted on the Session.                 *)
(***************************************************************************)
RetryTotal == 5
status_forcelist == {429}
\* backoff_factor=0.2, in tenths of a second
backoff_factor == 2

\* os.getenv(name): the value of the variable, None when it is not set
getenv(env, name) == env[name]

\* setup_session(api_key): the Session with its auth and its mounted Retry
setup_session(key, env) ==
    LET user == IF key = None THEN getenv(env, "PL_API_KEY") ELSE key IN
    [auth |-> <<user, Str("")>>,
     max_retries |-> [total |-> RetryTotal, backoff_factor |-> backoff_factor,
                      status_forcelist |-> status_forcelist]]
\* urllib3 Retry defaults the notebook leaves untouched
allowed_methods == {"HEAD", "GET", "PUT", "DELETE", "OPTIONS", "TRACE"}
RETRY_AFTER_STATUS_CODES == {413, 429, 503}
respect_retry_after_header == TRUE

\* is_retry of a policy widened to the 5xx statuses
is_retry_5xx(method, status_code, has_retry_after, tot) ==
    /\ method \in allowed_methods
    /\ \/ status_code \in status_forcelist
       \/ status_code >= 500
       \/ /\ tot # 0
          /\ respect_retry_after_header
          /\ has_retry_after
          /\ status_code \in RETRY_AFTER_STATUS_CODES

\* Retry.is_retry(method, status_code, has_retry_after) of Retry(total=tot,
\* status_forcelist=[429])
is_retry(method, status_code, has_retry_after, tot) ==
    /\ method \in allowed_methods
    /\ \/ status_code \in status_forcelist
       \/ /\ tot # 0
          /\ respect_retry_after_header
          /\ has_retry_after
          /\ status_code \in RETRY_AFTER_STATUS_CODES

\* is_exhausted allowing one retry more
is_exhausted_late(tot) == tot < 0 - 1

\* Retry.is_exhausted() after Retry.increment(): total went below zero

is_exhausted(tot) == tot < 0

\* Retry.BACKOFF_MAX: 120 s, in tenths of a second
BACKOFF_MAX == 1200

Min(a, b) == IF a <= b THEN a ELSE b

\* a backoff that also sleeps before the first retry
get_backoff_time_from_first(n) == Min(BACKOFF_MAX, backoff_factor * 2 ^ (n - 1))

\* Retry.get_backoff_time() after n consecutive answers that were retried: no
\* sleep before the first retry, then backoff_factor * 2 ** (n - 1)
get_backoff_time(n) ==
    IF n <= 1 THEN 0 ELSE Min(BACKOFF_MAX, backoff_factor * 2 ^ (n - 1))

\* the values of a response's Retry-After header: none, the empty value,
\* seconds ("0", "1") or a text that is neither seconds nor a date.  A date
\* reads like seconds: one that has passed like "0", one to come like a
\* positive number.
RetryAfterHeaders == {None, Str(""), Str("0"), Str("1"), Str("soon")}

\* has_retry_after = bool(response.headers.get("Retry-After")) in urlopen:
\* False without the header and for a header whose value is empty
has_retry_after(header) == header # None /\ header # Str("")

\* Retry.parse_retry_after(retry_after): the seconds of the header (in tenths
\* here), InvalidHeader for a value that is neither seconds nor a date
parse_retry_after(header) ==
    CASE header = Str("0") -> [raises |-> FALSE, tenths |-> 0]
      [] header = Str("1") -> [raises |-> FALSE, tenths |-> 10]
      [] OTHER -> [raises |-> TRUE, tenths |-> 0]

\* Retry.sleep(response) raises: get_retry_after parses the header it finds
sleep_raises(header) ==
    respect_retry_after_header /\ header # None /\ parse_retry_after(header).raises

\* a sleep that takes the Retry-After branch for every header, 0 included
sleep_for_any_header(header, n) ==
    IF respect_retry_after_header /\ header # None
    THEN [source |-> "Retry-After", tenths |-> parse_retry_after(header).tenths]
    ELSE [source |-> "backoff", tenths |-> get_backoff_time(n)]

\* Retry.sleep(response): sleep_for_retry sleeps the time of the Retry-After
\* header when that time is not 0; otherwise _sleep_backoff
sleep(header, n) ==
    IF /\ respect_retry_after_header
       /\ header # None
       /\ parse_retry_after(header).tenths # 0
    THEN [source |-> "Retry-After", tenths |-> parse_retry_after(header).tenths]
    ELSE [source |-> "backoff", tenths |-> get_backoff_time(n)]

\* Response.raise_for_status(): HTTPError for 4xx and 5xx
raise_for_status(status_code) == status_code >= 400 /\ status_code < 600

(***************************************************************************)
(* The server. Every attempt is answered either with the success response  *)
(* of the resource or with one of the error statuses below, with or        *)
(* without a Retry-After header.                                           *)
(***************************************************************************)
AssetStatus == {"inactive", "activating", "active"}
ErrorStatuses == {401, 429, 500, 503}
NoBody == [none |-> TRUE]

\* Content-Disposition headers the download endpoint may send, as token lists
\* ("dq" is a double quote); <<>> stands for a response without the header
GoodDisposition(f) == <<"attachment", ";", "filename=", "dq", f, "dq">>
Dispositions(f) ==
    { GoodDisposition(f), <<"attachment">>, <<"attachment", ";", "filename=", "dq", "dq">>,
      <<"attachment", ";", "filename=", f>>, <<>> }

\* the assets resource: location is present exactly when the asset is active
AssetsBody(f) == [status |-> status[f], location |-> status[f] = "active"]

\* 202 accepted / 204 already active
ActivationCode(f) == IF status[f] = "active" THEN 204 ELSE 202

SuccessResponses(r) ==
    CASE r.kind = "search" ->
           { [status_code |-> 200, retry_after |-> None, body |-> [page |-> 1]] }
      [] r.kind = "page" ->
           { [status_code |-> 200, retry_after |-> None, body |-> [page |-> r.page]] }
      [] r.kind = "assets" ->
           { [status_code |-> 200, retry_after |-> None, body |-> AssetsBody(r.feature)] }
      [] r.kind = "activate" ->
           { [status_code |-> ActivationCode(r.feature), retry_after |-> None,
              body |-> NoBody] }
      [] r.kind = "download" ->
           { [status_code |-> 200, retry_after |-> None,
              body |-> [disposition |-> d, chunks |-> n]] :
                 d \in Dispositions(r.feature), n \in 1..MaxChunks }

ErrorResponses ==
    { [status_code |-> s, retry_after |-> ra, body |-> NoBody] :
         s \in ErrorStatuses, ra \in RetryAfterHeaders }

ServerResponses(r) == SuccessResponses(r) \cup ErrorResponses

\* inactive -> activating when an activation request is accepted
ServerEffect(r, resp) ==
    IF r.kind = "activate" /\ resp.status_code = 202 /\ status[r.feature] = "inactive"
    THEN [status EXCEPT ![r.feature] = "activating"]
    ELSE status

(***************************************************************************)
(* session.get / session.post through HTTPAdapter(max_retries=retries).    *)
(***************************************************************************)
SendVars == <<req, sent, delay, total, attempts, last, prior429, outcome>>

\* str(username) in requests' _basic_auth_str: a user name that is not a str
\* is converted, None to 'None'
str(v) == IF v = None THEN Str("None") ELSE v

\* HTTPBasicAuth(*session.auth): the Authorization header of a request
basic_auth(auth) == [basic |-> TRUE, user |-> str(auth[1]), password |-> str(auth[2])]

\* attempts that resend a request without its Authorization header
headers_first_only(r, n) == IF n = 0 THEN r.auth ELSE NoAuth

\* urlopen(..., headers=headers, retries=retries): every attempt of a request
\* carries the headers the request was prepared with
headers(r, n) == r.auth

\* a new request: HTTPAdapter.send starts from the mounted Retry object
Send(r) ==
    /\ req' = r
    /\ sent' = NoAuth
    /\ delay' = NoDelay
    /\ total' = session.max_retries.total
    /\ attempts' = 0
    /\ last' = NoResponse
    /\ prior429' = TRUE
    /\ outcome' = NoOutcome

\* the response has been consumed
Clear == Send(NoReq)

Get(kind, f) ==
    [method |-> "GET", kind |-> kind, feature |-> f, auth |-> basic_auth(session.auth)]
GetPage(p) ==
    [method |-> "GET", kind |-> "page", page |-> p, auth |-> basic_auth(session.auth)]
PostSearch == [method |-> "POST", kind |-> "search", auth |-> basic_auth(session.auth)]

\* an exhausted Retry handing the last response back (raise_on_status=False)
ExhaustedReturns(status_code) ==
    [type |-> "response", status_code |-> status_code, body |-> NoBody]

\* what HTTPAdapter.send raises once Retry.increment finds the Retry exhausted
Exhausted(status_code) == [type |-> "RetryError", status_code |-> status_code]

\* Retry.sleep could not read the Retry-After header of the answer it was to
\* retry: urllib3's InvalidHeader, which requests raises on as its own
InvalidHeader(status_code) == [type |-> "InvalidHeader", status_code |-> status_code]

Returned(resp) ==
    [type |-> "response", status_code |-> resp.status_code, body |-> resp.body]

\* a Retry.increment that counts down the Retry mounted on the Session
retries_mounted(s, tot) == [s EXCEPT !.max_retries.total = tot]

\* urlopen counts its retries on the new Retry that Retry.increment returns:
\* the Retry mounted on the Session's adapter is left as setup_session made it
retries(s, tot) == s

\* one attempt: the server answers, urllib3 retries or hands the response back
Respond ==
    /\ req # NoReq
    /\ outcome = NoOutcome
    /\ \E resp \in ServerResponses(req) :
         /\ status' = ServerEffect(req, resp)
         /\ attempts' = attempts + 1
         /\ sent' = headers(req, attempts)
         /\ last' = [status_code |-> resp.status_code, retry_after |-> resp.retry_after]
         /\ prior429' = (prior429 /\ (attempts = 0 \/ last.status_code = 429))
         /\ IF is_retry(req.method, resp.status_code, has_retry_after(resp.retry_after), total)
            THEN /\ total' = total - 1
                 /\ outcome' = IF is_exhausted(total - 1)
                                THEN Exhausted(resp.status_code)
                                ELSE IF sleep_raises(resp.retry_after)
                                THEN InvalidHeader(resp.status_code)
                                ELSE NoOutcome
                 /\ delay' = IF is_exhausted(total - 1) \/ sleep_raises(resp.retry_after)
                               THEN NoDelay
                               ELSE sleep(resp.retry_after, attempts + 1)
            ELSE /\ total' = total
                 /\ outcome' = Returned(resp)
                 /\ delay' = NoDelay
    /\ session' = retries(session, total')
    /\ UNCHANGED <<api_key, environ, PoolVars, prog, cell, pc, results, pages, req, i, assets, statuses,
                   active, round, polls, body, next_url, k, gen, pulls, yielded, written,
                   files, error>>

\* activating -> active, at a time of the server's choosing
ServerProgress ==
    /\ \E f \in FeatIds :
         /\ status[f] = "activating"
         /\ status' = [status EXCEPT ![f] = "active"]
    /\ UNCHANGED <<SetupVars, PoolVars, prog, cell, pc, results, pages, req, sent, delay, total, attempts, last,
                   prior429, outcome, i, assets, statuses, active, round, polls, body, next_url, k, gen,
                   pulls, yielded, written, files, error>>

\* the session call raised, or raise_for_status() raises on what it returned
Raises(o) ==
    \/ o.type \in {"RetryError", "InvalidHeader"}
    \/ o.type = "response" /\ raise_for_status(o.status_code)

ErrorOf(o, kind) ==
    IF o.type \in {"RetryError", "InvalidHeader"}
    THEN [type |-> o.type, status_code |-> o.status_code, kind |-> kind]
    ELSE [type |-> "HTTPError", status_code |-> o.status_code, kind |-> kind]

\* a search that records the error and asks for the page again
Raise_retry_page(e) ==
    /\ error' = e
    /\ pc' = IF pc = "s_get" THEN "s_while" ELSE "raised"
    /\ gen' = IF gen = "none" THEN "none" ELSE IF pc = "s_get" THEN gen ELSE "done"
    /\ Clear

\* a loop over the features that records the error and goes on
Raise_and_go_on(e) ==
    /\ error' = e
    /\ pc' = IF pc \in {"act_fetch", "act_activate"} THEN "act_for"
             ELSE IF pc \in {"dl_fetch", "dl_get"} THEN "dl_for" ELSE "raised"
    /\ gen' = IF gen = "none" THEN "none"
              ELSE IF pc \in {"dl_fetch", "dl_get"} THEN gen ELSE "done"
    /\ Clear

\* an exception leaves the function (and list(), for a generator) and ends the cell
Raise(e) ==
    /\ error' = e
    /\ pc' = "raised"
    /\ gen' = IF gen = "none" THEN "none" ELSE "done"
    /\ Clear

\* the cell's function returned: the next cell runs
Return ==
    /\ pc' = "idle"
    /\ cell' = cell + 1

Calling(name) ==
    /\ pc = "idle"
    /\ cell <= Len(prog)
    /\ prog[cell] = name

(***************************************************************************)
(* activate(results, asset_name)                                           *)
(***************************************************************************)
\* an activate that requests the activation whatever the status
NeedsActivationAlways(st) == TRUE

\* a status other than 'active' taken as needing activation
NeedsActivationLoose(st) == st # "active"

\* assets[asset_name]['status'] == 'inactive'
NeedsActivation(st) == st = "inactive"

CallActivate ==
    /\ Calling("activate")
    /\ i' = 1
    /\ pc' = "act_for"
    /\ UNCHANGED <<SetupVars, PoolVars, prog, cell, results, pages, status, SendVars, assets, statuses,
                   active, round, polls, body, next_url, k, gen, pulls, yielded,
                   written, files, error>>

\* for feature in results: assets = _fetch_assets(feature)
ActFor ==
    /\ pc = "act_for"
    /\ IF i <= Len(results)
       THEN /\ Send(Get("assets", results[i]))
            /\ pc' = "act_fetch"
            /\ UNCHANGED <<cell, i>>
       ELSE /\ Return
            /\ i' = 1
            /\ UNCHANGED SendVars
    /\ UNCHANGED <<SetupVars, PoolVars, prog, results, pages, status, assets, statuses, active, round,
                   polls, body, next_url, k, gen, pulls, yielded, written, files,
                   error>>

\* _fetch_assets returned or raised; the status decides on the activation request
ActFetched ==
    /\ pc = "act_fetch"
    /\ outcome # NoOutcome
    /\ IF Raises(outcome)
       THEN /\ Raise(ErrorOf(outcome, "assets"))
            /\ UNCHANGED <<assets, i>>
       ELSE /\ IF NeedsActivation(outcome.body.status)
               THEN /\ Send(Get("activate", results[i]))
                    /\ assets' = outcome.body
                    /\ pc' = "act_activate"
                    /\ UNCHANGED i
               ELSE /\ Clear
                    /\ assets' = NoBody
                    /\ i' = i + 1
                    /\ pc' = "act_for"
            /\ UNCHANGED <<gen, error>>
    /\ UNCHANGED <<SetupVars, PoolVars, prog, cell, results, pages, status, statuses, active, round,
                   polls, body, next_url, k, pulls, yielded, written, files>>

\* response = session.get(activate link); response.raise_for_status()
ActActivated ==
    /\ pc = "act_activate"
    /\ outcome # NoOutcome
    /\ IF Raises(outcome)
       THEN /\ Raise(ErrorOf(outcome, "activate"))
            /\ UNCHANGED i
       ELSE /\ Clear
            /\ i' = i + 1
            /\ pc' = "act_for"
            /\ UNCHANGED <<gen, error>>
    /\ assets' = NoBody
    /\ UNCHANGED <<SetupVars, PoolVars, prog, cell, results, pages, status, statuses, active, round,
                   polls, body, next_url, k, pulls, yielded, written, files>>

(***************************************************************************)
(* wait_for_active(results, asset_name)                                    *)
(***************************************************************************)
\* any() in place of all()
any(flags) == \E j \in DOMAIN flags : flags[j]

\* an all() that is False of the empty list
all_nonempty(flags) == flags # <<>> /\ \A j \in DOMAIN flags : flags[j]

\* all(active)
all(flags) == \A j \in DOMAIN flags : flags[j]

\* a status other than 'inactive' taken as active
IsActiveLoose(item) == item # "inactive"

\* a comparison that holds of no status
IsActiveNever(item) == FALSE

\* item == 'active'
IsActive(item) == item = "active"

NoPolls == [j \in 1..Len(results) |-> 0]

CallWait ==
    /\ Calling("wait_for_active")
    /\ active' = <<FALSE>>
    /\ round' = 0
    /\ polls' = NoPolls
    /\ pc' = "wait_while"
    /\ UNCHANGED <<SetupVars, PoolVars, prog, cell, results, pages, status, SendVars, i, assets, statuses,
                   body, next_url, k, gen, pulls, yielded, written, files, error>>

\* while not all(active): a new pass, or the function returns
WaitWhile ==
    /\ pc = "wait_while"
    /\ IF ~all(active)
       THEN /\ round < MaxRounds
            /\ round' = round + 1
            /\ statuses' = <<>>
            /\ i' = 1
            /\ pc' = "wait_for"
            /\ UNCHANGED <<cell, active, polls>>
       ELSE /\ Return
            /\ round' = 0
            /\ polls' = NoPolls
            /\ active' = <<>>
            /\ UNCHANGED <<statuses, i>>
    /\ UNCHANGED <<SetupVars, PoolVars, prog, results, pages, status, SendVars, assets, body, next_url, k,
                   gen, pulls, yielded, written, files, error>>

\* the list comprehension: the next _fetch_assets(item), or the 'active' list
WaitFor ==
    /\ pc = "wait_for"
    /\ IF i <= Len(results)
       THEN /\ Send(Get("assets", results[i]))
            /\ polls' = [polls EXCEPT ![i] = @ + 1]
            /\ pc' = "wait_fetch"
            /\ UNCHANGED <<active, statuses, i>>
       ELSE /\ active' = [j \in 1..Len(statuses) |-> IsActive(statuses[j])]
            /\ statuses' = <<>>
            /\ i' = 1
            /\ pc' = "wait_while"
            /\ UNCHANGED <<SendVars, polls>>
    /\ UNCHANGED <<SetupVars, PoolVars, prog, cell, results, pages, status, assets, round, body, next_url,
                   k, gen, pulls, yielded, written, files, error>>

\* _fetch_assets(item)[asset_name]['status'] joins the list, or the fetch raised
WaitFetched ==
    /\ pc = "wait_fetch"
    /\ outcome # NoOutcome
    /\ IF Raises(outcome)
       THEN /\ Raise(ErrorOf(outcome, "assets"))
            /\ UNCHANGED <<statuses, i>>
       ELSE /\ statuses' = Append(statuses, outcome.body.status)
            /\ i' = i + 1
            /\ Clear
            /\ pc' = "wait_for"
            /\ UNCHANGED <<gen, error>>
    /\ UNCHANGED <<SetupVars, PoolVars, prog, cell, results, pages, status, assets, active, round, polls,
                   body, next_url, k, pulls, yielded, written, files>>

(***************************************************************************)
(* download(results, asset_name): a generator                              *)
(***************************************************************************)
\* the matches of r'filename="(.+)"' in a header: <<start, end>> of each group
Groups(d) ==
    { pq \in (1..Len(d)) \X (1..Len(d)) :
         /\ pq[1] >= 3
         /\ pq[2] >= pq[1]
         /\ pq[2] < Len(d)
         /\ d[pq[1] - 2] = "filename="
         /\ d[pq[1] - 1] = "dq"
         /\ d[pq[2] + 1] = "dq" }

\* a pattern that also takes a file name given without quotes
findall_unquoted(d) ==
    IF Groups(d) # {}
    THEN LET g == CHOOSE pq \in Groups(d) : TRUE IN << SubSeq(d, g[1], g[2]) >>
    ELSE IF \E p \in 1..(Len(d) - 1) : d[p] = "filename=" /\ d[p + 1] # "dq"
    THEN LET p == CHOOSE q \in 1..(Len(d) - 1) : d[q] = "filename=" /\ d[q + 1] # "dq"
         IN  << <<d[p + 1]>> >>
    ELSE <<>>

\* re.findall(r'filename="(.+)"', disposition): leftmost match, greedy group
findall(d) ==
    IF Groups(d) = {} THEN <<>>
    ELSE LET lo == CHOOSE p \in {pq[1] : pq \in Groups(d)} :
                         \A pq \in Groups(d) : p <= pq[1]
             hi  == CHOOSE q \in {pq[2] : pq \in {g \in Groups(d) : g[1] = lo}} :
                         \A pq \in {g \in Groups(d) : g[1] = lo} : q >= pq[2]
         IN  << SubSeq(d, lo, hi) >>

\* the file name as one string: the tokens of the group (one token here)
NameOf(group) == group[1]

NoFile == [exists |-> FALSE, data |-> <<>>]

\* a loop that goes on to the next feature without suspending at the yield
yield_eager(pos) == [gen |-> "running", pc |-> "dl_for", i |-> pos + 1]

\* yield filename: the generator is suspended until the caller asks again
yield_filename(pos) == [gen |-> "suspended", pc |-> "dl_yield", i |-> pos]

\* the download cell as the notebook has it: its last line,
\* files = list(download(results, asset), lacks the closing parenthesis, so
\* compiling the cell raises SyntaxError before any of it runs: download is
\* not defined, no generator is made, nothing is requested or written
SyntaxError == [type |-> "SyntaxError", status_code |-> 0, kind |-> "cell"]

DownloadCell ==
    /\ Calling("download_cell")
    /\ error' = SyntaxError
    /\ pc' = "raised"
    /\ UNCHANGED <<SetupVars, PoolVars, prog, cell, results, pages, status, SendVars, i, assets, statuses,
                   active, round, polls, body, next_url, k, gen, pulls, yielded, written, files>>

\* download as defined by the cell's def, called by list(download(results, asset))
CallDownload ==
    /\ Calling("download")
    /\ gen' = "suspended"
    /\ pulls' = 0
    /\ yielded' = <<>>
    /\ i' = 1
    /\ pc' = "dl_start"
    /\ UNCHANGED <<SetupVars, PoolVars, prog, cell, results, pages, status, SendVars, assets, statuses,
                   active, round, polls, body, next_url, k, written, files, error>>

\* list() asks for the next element: the generator starts or resumes
DlNext ==
    /\ pc \in {"dl_start", "dl_yield"}
    /\ gen = "suspended"
    /\ gen' = "running"
    /\ pulls' = pulls + 1
    /\ i' = IF pc = "dl_yield" THEN i + 1 ELSE i
    /\ pc' = "dl_for"
    /\ UNCHANGED <<SetupVars, PoolVars, prog, cell, results, pages, status, SendVars, assets, statuses,
                   active, round, polls, body, next_url, k, yielded, written, files,
                   error>>

\* for feature in results: assets = _fetch_assets(feature)
DlFor ==
    /\ pc = "dl_for"
    /\ gen = "running"
    /\ IF i <= Len(results)
       THEN /\ Send(Get("assets", results[i]))
            /\ pc' = "dl_fetch"
            /\ UNCHANGED <<cell, gen, i>>
       ELSE /\ Return
            /\ gen' = "done"
            /\ i' = 1
            /\ UNCHANGED SendVars
    /\ UNCHANGED <<SetupVars, PoolVars, prog, results, pages, status, assets, statuses, active, round,
                   polls, body, next_url, k, pulls, yielded, written, files, error>>

\* download_url = assets[asset_name]['location']; session.get(download_url, stream=True)
DlFetched ==
    /\ pc = "dl_fetch"
    /\ outcome # NoOutcome
    /\ IF Raises(outcome)
       THEN /\ Raise(ErrorOf(outcome, "assets"))
            /\ UNCHANGED assets
       ELSE IF ~outcome.body.location
       THEN /\ Raise([type |-> "KeyError", status_code |-> outcome.status_code,
                       kind |-> "location"])
            /\ assets' = outcome.body
       ELSE /\ Send(Get("download", results[i]))
            /\ assets' = outcome.body
            /\ pc' = "dl_get"
            /\ UNCHANGED <<gen, error>>
    /\ UNCHANGED <<SetupVars, PoolVars, prog, cell, results, pages, status, i, statuses, active, round,
                   polls, body, next_url, k, pulls, yielded, written, files>>

\* raise_for_status(); the file name from Content-Disposition; open(filename, 'wb')
DlResponse ==
    /\ pc = "dl_get"
    /\ outcome # NoOutcome
    /\ IF Raises(outcome)
       THEN /\ Raise(ErrorOf(outcome, "download"))
            /\ UNCHANGED <<written, files>>
       ELSE IF outcome.body.disposition = <<>>
       THEN /\ Raise([type |-> "KeyError", status_code |-> outcome.status_code,
                       kind |-> "Content-Disposition"])
            /\ UNCHANGED <<written, files>>
       ELSE IF findall(outcome.body.disposition) = <<>>
       THEN /\ Raise([type |-> "IndexError", status_code |-> outcome.status_code,
                       kind |-> "filename"])
            /\ UNCHANGED <<written, files>>
       ELSE /\ files' = [files EXCEPT
                            ![NameOf(findall(outcome.body.disposition)[1])] =
                                [exists |-> TRUE, data |-> <<>>]]
            /\ written' = 0
            /\ pc' = "dl_copy"
            /\ UNCHANGED <<SendVars, gen, error>>
    /\ UNCHANGED <<SetupVars, PoolVars, prog, cell, results, pages, status, i, assets, statuses, active,
                   round, polls, body, next_url, k, pulls, yielded>>

\* a copy loop that puts every new chunk at the start of the file
write_front(data, buf) == <<buf>> \o data

\* fdst.write(buf) in shutil.copyfileobj: the chunk goes to the end of the file
write(data, buf) == Append(data, buf)

\* HTTPResponse(enforce_content_length=...), which requests leaves at the
\* default of the installed urllib3: False in 1.x (a body that ends before
\* Content-Length reads as a plain end of stream), True in 2.x (IncompleteRead,
\* which the response's error catcher raises on as a ProtocolError, as it does
\* for a connection that broke)
enforce_content_length == BOOLEAN

\* what response.raw.read(length) can do after n of the body's chunks: hand
\* over the next chunk, raise because the connection broke, find the stream
\* closed by the peer before the whole body came, or find its regular end
RawReads(n, chunks) ==
    IF n < chunks THEN {"chunk", "reset", "closed"} ELSE {"eof"}

StreamError(type) == [type |-> type, status_code |-> 200, kind |-> "stream"]

\* shutil.copyfileobj(response.raw, outfile) chunk by chunk; del response; yield
DlCopy ==
    /\ pc = "dl_copy"
    /\ LET filename == NameOf(findall(outcome.body.disposition)[1]) IN
       \E read \in RawReads(written, outcome.body.chunks) :
       \E enforce \in enforce_content_length :
          IF read = "chunk"
          THEN /\ files' = [files EXCEPT ![filename].data = write(@, written + 1)]
               /\ written' = written + 1
               /\ UNCHANGED <<pc, SendVars, gen, i, yielded, assets, error>>
          ELSE IF read = "reset" \/ (read = "closed" /\ enforce)
          THEN /\ Raise(StreamError("ProtocolError"))
               /\ written' = 0
               /\ assets' = NoBody
               /\ UNCHANGED <<files, yielded, i>>
          ELSE /\ Clear
               /\ written' = 0
               /\ assets' = NoBody
               /\ yielded' = Append(yielded, filename)
               /\ gen' = yield_filename(i).gen
               /\ pc' = yield_filename(i).pc
               /\ i' = yield_filename(i).i
               /\ UNCHANGED <<files, error>>
    /\ UNCHANGED <<SetupVars, PoolVars, prog, cell, results, pages, status, statuses, active, round,
                   polls, body, next_url, k, pulls>>

(***************************************************************************)
(* search(geom, start_date, end_date, item_type, asset): a generator       *)
(***************************************************************************)
\* the truth value of next_url: None and '' end the while loop
Truthy(link) == link.link = "url"

\* the features of a page walked from the end
ItemReversed(features, pos) == features[Len(features) + 1 - pos]

\* for item in body['features']: the item at a position of the loop
Item(features, pos) == features[pos]

NoPage == [features |-> <<>>, next |-> NoLink]

\* a loop that goes on to the next item without suspending at the yield
yield_item_eager(at, loop, pos) == [gen |-> "running", pc |-> loop, k |-> pos + 1]

\* yield item: the generator is suspended until the caller asks again
yield_item(at, loop, pos) == [gen |-> "suspended", pc |-> at, k |-> pos]

\* a search that keeps following the link of its first page
get_next_stale(page) == IF Truthy(page.next) THEN Url(2) ELSE page.next

\* body['_links'].get('_next'): the link of the page in hand
get_next(page) == page.next

CallSearch ==
    /\ Calling("search")
    /\ gen' = "suspended"
    /\ pulls' = 0
    /\ yielded' = <<>>
    /\ body' = NoPage
    /\ next_url' = NoLink
    /\ k' = 1
    /\ pc' = "s_start"
    /\ UNCHANGED <<SetupVars, PoolVars, prog, cell, results, pages, status, SendVars, i, assets,
                   statuses, active, round, polls, written, files, error>>

\* list() asks for the next element: the generator starts or resumes
SearchNext ==
    /\ pc \in {"s_start", "s_yield_first", "s_yield"}
    /\ gen = "suspended"
    /\ gen' = "running"
    /\ pulls' = pulls + 1
    /\ k' = IF pc = "s_start" THEN k ELSE k + 1
    /\ pc' = CASE pc = "s_start" -> "s_post"
               [] pc = "s_yield_first" -> "s_for_first"
               [] pc = "s_yield" -> "s_for"
    /\ UNCHANGED <<SetupVars, PoolVars, prog, cell, results, pages, status, SendVars, i, assets,
                   statuses, active, round, polls, body, next_url, yielded, written,
                   files, error>>

\* resp = session.post(quick-search, json=request)
SearchPost ==
    /\ pc = "s_post"
    /\ gen = "running"
    /\ Send(PostSearch)
    /\ pc' = "s_posted"
    /\ UNCHANGED <<SetupVars, PoolVars, prog, cell, results, pages, status, i, assets, statuses, active,
                   round, polls, body, next_url, k, gen, pulls, yielded, written,
                   files, error>>

\* resp.raise_for_status(); body = resp.json()
SearchPosted ==
    /\ pc = "s_posted"
    /\ outcome # NoOutcome
    /\ IF Raises(outcome)
       THEN /\ Raise(ErrorOf(outcome, "search"))
            /\ UNCHANGED <<body, k>>
       ELSE /\ body' = pages[outcome.body.page]
            /\ k' = 1
            /\ Clear
            /\ pc' = "s_for_first"
            /\ UNCHANGED <<gen, error>>
    /\ UNCHANGED <<SetupVars, PoolVars, prog, cell, results, pages, status, i, assets, statuses, active,
                   round, polls, next_url, pulls, yielded, written, files>>

\* the first page: for item in body['features']: yield item; then next_url
SearchForFirst ==
    /\ pc = "s_for_first"
    /\ gen = "running"
    /\ IF k <= Len(body.features)
       THEN /\ yielded' = Append(yielded, Item(body.features, k))
            /\ gen' = yield_item("s_yield_first", "s_for_first", k).gen
            /\ pc' = yield_item("s_yield_first", "s_for_first", k).pc
            /\ k' = yield_item("s_yield_first", "s_for_first", k).k
            /\ UNCHANGED next_url
       ELSE /\ next_url' = get_next(body)
            /\ pc' = "s_while"
            /\ UNCHANGED <<yielded, gen, k>>
    /\ UNCHANGED <<SetupVars, PoolVars, prog, cell, results, pages, status, SendVars, i, assets,
                   statuses, active, round, polls, body, pulls, written, files,
                   error>>

\* while next_url: response = session.get(next_url); else the generator ends
SearchWhile ==
    /\ pc = "s_while"
    /\ gen = "running"
    /\ IF Truthy(next_url)
       THEN /\ Send(GetPage(next_url.page))
            /\ pc' = "s_get"
            /\ UNCHANGED <<cell, gen, results>>
       ELSE /\ Return
            /\ gen' = "done"
            /\ results' = yielded
            /\ UNCHANGED SendVars
    /\ UNCHANGED <<SetupVars, PoolVars, prog, pages, status, i, assets, statuses, active, round, polls,
                   body, next_url, k, pulls, yielded, written, files, error>>

\* response.raise_for_status(); body = response.json(); next_url = ...get('_next')
SearchGot ==
    /\ pc = "s_get"
    /\ outcome # NoOutcome
    /\ IF Raises(outcome)
       THEN /\ Raise(ErrorOf(outcome, "page"))
            /\ UNCHANGED <<body, next_url, k>>
       ELSE /\ body' = pages[outcome.body.page]
            /\ next_url' = get_next(pages[outcome.body.page])
            /\ k' = 1
            /\ Clear
            /\ pc' = "s_for"
            /\ UNCHANGED <<gen, error>>
    /\ UNCHANGED <<SetupVars, PoolVars, prog, cell, results, pages, status, i, assets, statuses, active,
                   round, polls, pulls, yielded, written, files>>

\* a later page: for item in body['features']: yield item
SearchFor ==
    /\ pc = "s_for"
    /\ gen = "running"
    /\ IF k <= Len(body.features)
       THEN /\ yielded' = Append(yielded, Item(body.features, k))
            /\ gen' = yield_item("s_yield", "s_for", k).gen
            /\ pc' = yield_item("s_yield", "s_for", k).pc
            /\ k' = yield_item("s_yield", "s_for", k).k
       ELSE /\ pc' = "s_while"
            /\ UNCHANGED <<yielded, gen, k>>
    /\ UNCHANGED <<SetupVars, PoolVars, prog, cell, results, pages, status, SendVars, i, assets,
                   statuses, active, round, polls, body, next_url, pulls, written,
                   files, error>>

(***************************************************************************)
(* make_request on a ThreadPoolExecutor: the threads send their requests   *)
(* through the one Session at the same time.                               *)
(***************************************************************************)
Threads == 1..nthreads
Idle == [state |-> "idle", task |-> 0, auth |-> NoAuth, total |-> 0, attempts |-> 0,
         retried |-> 0]
Pending == [state |-> "pending", status_code |-> 0]
Running == [state |-> "running", status_code |-> 0]
Cancelled == [state |-> "cancelled", status_code |-> 0]

\* the scene resource answers 200 or one of the error statuses
SceneResponses ==
    { [status_code |-> 200, retry_after |-> None, body |-> NoBody] } \cup ErrorResponses

\* a single Retry object that all requests of the Session count down
increment_shared(ws, w) ==
    [v \in DOMAIN ws |->
        IF v = w
        THEN [ws[v] EXCEPT !.total = @ - 1, !.attempts = @ + 1, !.retried = @ + 1]
        ELSE IF ws[v].state = "sending" THEN [ws[v] EXCEPT !.total = @ - 1]
        ELSE ws[v]]

\* retries = retries.increment(...): a new Retry object for the request that
\* was answered; the Retry mounted on the Session is never changed
increment(ws, w) ==
    [ws EXCEPT ![w].total = @ - 1, ![w].attempts = @ + 1, ![w].retried = @ + 1]

\* with ThreadPoolExecutor(nthreads) as executor: executor.map(make_request, ...)
\* starts to submit the calls
CallMap ==
    /\ Calling("make_request")
    /\ futures' = <<>>
    /\ work_queue' = <<>>
    /\ workers' = [w \in Threads |-> Idle]
    /\ i' = 1
    /\ pc' = "map_submit"
    /\ UNCHANGED <<SetupVars, prog, cell, results, pages, status, SendVars, assets,
                   statuses, active, round, polls, body, next_url, k, gen, pulls,
                   yielded, written, files, error>>

\* fs = [self.submit(fn, *args) for args in zip(*iterables)]: one call is
\* submitted at a time, and the threads run the calls already submitted
MapSubmit ==
    /\ pc = "map_submit"
    /\ IF Len(futures) < NumRequests
       THEN /\ futures' = Append(futures, Pending)
            /\ work_queue' = Append(work_queue, Len(futures) + 1)
            /\ UNCHANGED pc
       ELSE /\ pc' = "map_iter"
            /\ UNCHANGED <<futures, work_queue>>
    /\ UNCHANGED <<SetupVars, workers, prog, cell, results, pages, status, SendVars, i,
                   assets, statuses, active, round, polls, body, next_url, k, gen,
                   pulls, yielded, written, files, error>>

\* work_item = work_queue.get(): a thread without a call takes the oldest
\* call of the queue, whatever has become of its future
WorkerTake(w) ==
    /\ workers[w].state = "idle"
    /\ work_queue # <<>>
    /\ workers' = [workers EXCEPT ![w] = [Idle EXCEPT !.state = "taken",
                                                      !.task = Head(work_queue)]]
    /\ work_queue' = Tail(work_queue)
    /\ UNCHANGED <<SetupVars, futures, prog, cell, pc, results, pages, status, SendVars, i,
                   assets, statuses, active, round, polls, body, next_url, k, gen,
                   pulls, yielded, written, files, error>>

\* work_item.run(): a call that was cancelled in the meantime is dropped
\* (set_running_or_notify_cancel), any other starts:
\* session.get(scene_url, auth=(PLANET_API_KEY, ''))
WorkerStart(w) ==
    /\ workers[w].state = "taken"
    /\ IF futures[workers[w].task] = Pending
       THEN /\ futures' = [futures EXCEPT ![workers[w].task] = Running]
            /\ workers' = [workers EXCEPT ![w] =
                              [state |-> "sending", task |-> workers[w].task,
                               auth |-> basic_auth(<<getenv(environ, "PL_API_KEY"),
                                                     Str("")>>),
                               total |-> session.max_retries.total,
                               attempts |-> 0, retried |-> 0]]
       ELSE /\ workers' = [workers EXCEPT ![w] = Idle]
            /\ UNCHANGED futures
    /\ UNCHANGED <<SetupVars, work_queue, prog, cell, pc, results, pages, status, SendVars, i,
                   assets, statuses, active, round, polls, body, next_url, k, gen,
                   pulls, yielded, written, files, error>>

\* one attempt of the request of a thread is answered: urllib3 retries, or the
\* call ends with the response (raise_for_status) or with the retry error
WorkerRespond(w) ==
    /\ workers[w].state = "sending"
    /\ \E resp \in SceneResponses :
         IF /\ is_retry("GET", resp.status_code, has_retry_after(resp.retry_after),
                         workers[w].total)
            /\ ~is_exhausted(workers[w].total - 1)
            /\ ~sleep_raises(resp.retry_after)
         THEN /\ workers' = increment(workers, w)
              /\ UNCHANGED futures
         ELSE /\ workers' = [workers EXCEPT ![w] = Idle]
              /\ futures' = [futures EXCEPT ![workers[w].task] =
                    IF /\ is_retry("GET", resp.status_code, has_retry_after(resp.retry_after),
                                   workers[w].total)
                       /\ is_exhausted(workers[w].total - 1)
                    THEN [state |-> "RetryError", status_code |-> resp.status_code]
                    ELSE IF is_retry("GET", resp.status_code,
                                     has_retry_after(resp.retry_after), workers[w].total)
                    THEN [state |-> "InvalidHeader", status_code |-> resp.status_code]
                    ELSE IF raise_for_status(resp.status_code)
                    THEN [state |-> "HTTPError", status_code |-> resp.status_code]
                    ELSE [state |-> "ok", status_code |-> resp.status_code]]
    /\ UNCHANGED <<SetupVars, work_queue, prog, cell, pc, results, pages, status, SendVars, i,
                   assets, statuses, active, round, polls, body, next_url, k, gen,
                   pulls, yielded, written, files, error>>

\* for _ in executor.map(...): the results in the order of the calls; the
\* first exception leaves the loop, and the iterator's finally block then
\* cancels the calls behind it (cancelling the call that raised changes
\* nothing: it has ended)
MapNext ==
    /\ pc = "map_iter"
    /\ IF i > Len(futures)
       THEN /\ pc' = "map_shutdown"
            /\ UNCHANGED <<i, k, error>>
       ELSE /\ futures[i].state \in {"ok", "HTTPError", "RetryError", "InvalidHeader"}
            /\ IF futures[i].state = "ok"
               THEN /\ i' = i + 1
                    /\ UNCHANGED <<pc, k, error>>
               ELSE /\ error' = [type |-> futures[i].state,
                                 status_code |-> futures[i].status_code,
                                 kind |-> "scene"]
                    /\ k' = Len(futures)
                    /\ pc' = "map_cancel"
                    /\ UNCHANGED i
    /\ UNCHANGED <<SetupVars, PoolVars, prog, cell, results, pages, status, SendVars, assets,
                   statuses, active, round, polls, body, next_url, gen, pulls, yielded,
                   written, files>>

\* for future in fs: future.cancel(), fs holding the calls behind the one that
\* raised, the last one first: a call no thread has taken is cancelled, a
\* running or ended one is left as it is
MapCancel ==
    /\ pc = "map_cancel"
    /\ IF k > i
       THEN /\ futures' = [futures EXCEPT ![k] = IF @ = Pending THEN Cancelled ELSE @]
            /\ k' = k - 1
            /\ UNCHANGED pc
       ELSE /\ pc' = "map_shutdown"
            /\ UNCHANGED <<futures, k>>
    /\ UNCHANGED <<SetupVars, workers, work_queue, prog, cell, results, pages, status, SendVars, i,
                   assets, statuses, active, round, polls, body, next_url, gen, pulls,
                   yielded, written, files, error>>

\* leaving the with block: executor.shutdown(wait=True) returns once the
\* threads have run every call left in the queue and ended; then the cell
\* ends, with the exception of the loop if there was one
MapShutdown ==
    /\ pc = "map_shutdown"
    /\ work_queue = <<>>
    /\ \A w \in Threads : workers[w].state = "idle"
    /\ IF error = NoError
       THEN /\ Return
            /\ i' = 1
            /\ UNCHANGED <<SendVars, gen, error>>
       ELSE /\ Raise(error)
            /\ UNCHANGED <<cell, i>>
    /\ UNCHANGED <<SetupVars, PoolVars, prog, results, pages, status, assets, statuses,
                   active, round, polls, body, next_url, k, pulls, yielded, written,
                   files>>

(***************************************************************************)
(* The notebook: the cells a caller runs, and the states they start from.  *)
(***************************************************************************)
\* "download" is a call of the function the def of the download cell gives,
\* consumed by list(); "download_cell" is that cell run as it is written
Programs ==
    { <<"search">>,
      <<"activate", "wait_for_active", "download">>,
      <<"activate", "activate">>,
      <<"download">>,
      <<"download_cell">> }

Pipeline == <<"activate", "wait_for_active", "download">>

\* the ways setup_session is called: with a key or without, PL_API_KEY set
\* or not
ApiKeys == {None, Str("key")}
Environs == { [PL_API_KEY |-> v] : v \in {None, Str("envkey")} }

\* the search cell and the pipeline run on the notebook's own session,
\* setup_session() with PL_API_KEY set; the other programs on every session
SetupCalls(p) ==
    IF p \in {<<"search">>, Pipeline}
    THEN { <<None, [PL_API_KEY |-> Str("envkey")]>> }
    ELSE ApiKeys \X Environs

ResultSeqs == UNION { [1..n -> FeatIds] : n \in 0..MaxResults }

\* chains of 1..MaxPages pages, each linking to the next, the last one to none
PageChains ==
    UNION { { [p \in 1..n |-> [features |-> bodies[p],
                               next |-> IF p < n THEN Url(p + 1) ELSE tail]] :
                 bodies \in [1..n -> PageBodies], tail \in {NoLink, EmptyLink} } :
            n \in 1..MaxPages }

Init ==
    /\ prog \in Programs
    /\ \E call \in SetupCalls(prog) :
          /\ api_key = call[1]
          /\ environ = call[2]
    /\ session = setup_session(api_key, environ)
    /\ sent = NoAuth
    /\ delay = NoDelay
    /\ cell = 1
    /\ pc = "idle"
    /\ IF prog = <<"search">>
       THEN /\ pages \in PageChains
            /\ results = <<>>
            /\ status = [f \in FeatIds |-> "inactive"]
       ELSE /\ pages = <<>>
            /\ results \in ResultSeqs
            /\ status \in [FeatIds -> AssetStatus]
    /\ req = NoReq
    /\ total = session.max_retries.total
    /\ attempts = 0
    /\ last = NoResponse
    /\ prior429 = TRUE
    /\ outcome = NoOutcome
    /\ i = 1
    /\ assets = NoBody
    /\ statuses = <<>>
    /\ active = <<>>
    /\ round = 0
    /\ polls = [j \in 1..Len(results) |-> 0]
    /\ body = NoPage
    /\ next_url = NoLink
    /\ k = 1
    /\ gen = "none"
    /\ pulls = 0
    /\ yielded = <<>>
    /\ written = 0
    /\ files = [f \in FeatIds |-> NoFile]
    /\ error = NoError
    /\ workers = [w \in Threads |-> Idle]
    /\ futures = <<>>
    /\ work_queue = <<>>

Next ==
    \/ Respond
    \/ ServerProgress
    \/ CallActivate
    \/ ActFor
    \/ ActFetched
    \/ ActActivated
    \/ CallWait
    \/ WaitWhile
    \/ WaitFor
    \/ WaitFetched
    \/ DownloadCell
    \/ CallDownload
    \/ DlNext
    \/ DlFor
    \/ DlFetched
    \/ DlResponse
    \/ DlCopy
    \/ CallSearch
    \/ SearchNext
    \/ SearchPost
    \/ SearchPosted
    \/ SearchForFirst
    \/ SearchWhile
    \/ SearchGot
    \/ SearchFor

Spec == Init /\ [][Next]_vars

\* activate, wait_for_active and download (the function of the cell's def)
\* called one after the other.
\* The notebook is one synchronous thread, so a step that can be taken is
\* taken, and the server answers every attempt; the server finishes every
\* activation it has started.
InitPipeline == Init /\ prog = Pipeline

StepPipeline ==
    \/ Respond
    \/ CallActivate
    \/ ActFor
    \/ ActFetched
    \/ ActActivated
    \/ CallWait
    \/ WaitWhile
    \/ WaitFor
    \/ WaitFetched
    \/ CallDownload
    \/ DlNext
    \/ DlFor
    \/ DlFetched
    \/ DlResponse
    \/ DlCopy

NextPipeline == StepPipeline \/ ServerProgress

SpecPipeline ==
    /\ InitPipeline
    /\ [][NextPipeline]_vars
    /\ WF_vars(StepPipeline)
    /\ WF_vars(ServerProgress)

\* the threaded cell of the first notebook, on a Session with the same auth
\* and the same mounted Retry
InitThreads ==
    /\ prog = <<"make_request">>
    /\ api_key = None
    /\ environ \in Environs
    /\ session = setup_session(api_key, environ)
    /\ cell = 1
    /\ pc = "idle"
    /\ pages = <<>>
    /\ results = <<>>
    /\ status = [f \in FeatIds |-> "inactive"]
    /\ req = NoReq
    /\ sent = NoAuth
    /\ delay = NoDelay
    /\ total = session.max_retries.total
    /\ attempts = 0
    /\ last = NoResponse
    /\ prior429 = TRUE
    /\ outcome = NoOutcome
    /\ i = 1
    /\ assets = NoBody
    /\ statuses = <<>>
    /\ active = <<>>
    /\ round = 0
    /\ polls = <<>>
    /\ body = NoPage
    /\ next_url = NoLink
    /\ k = 1
    /\ gen = "none"
    /\ pulls = 0
    /\ yielded = <<>>
    /\ written = 0
    /\ files = [f \in FeatIds |-> NoFile]
    /\ error = NoError
    /\ workers = [w \in Threads |-> Idle]
    /\ futures = <<>>
    /\ work_queue = <<>>

NextThreads ==
    \/ CallMap
    \/ MapSubmit
    \/ \E w \in Threads : WorkerTake(w)
    \/ \E w \in Threads : WorkerStart(w)
    \/ \E w \in Threads : WorkerRespond(w)
    \/ MapNext
    \/ MapCancel
    \/ MapShutdown

SpecThreads == InitThreads /\ [][NextThreads]_vars

\* the search cell alone, run to its end: list() keeps asking for the next
\* element, the server answers every attempt, the interpreter keeps running
InitSearch == Init /\ prog = <<"search">>

NextSearch ==
    \/ Respond
    \/ CallSearch
    \/ SearchNext
    \/ SearchPost
    \/ SearchPosted
    \/ SearchForFirst
    \/ SearchWhile
    \/ SearchGot
    \/ SearchFor

SpecSearch == InitSearch /\ [][NextSearch]_vars /\ WF_vars(NextSearch)

(***************************************************************************)
(* The retry policy.                                                       *)
(***************************************************************************)
Answered == req # NoReq /\ attempts >= 1
Only429 == Answered /\ prior429 /\ last.status_code = 429
Is2xx(status_code) == status_code >= 200 /\ status_code < 300

\* C1 as stated: no request is attempted more than 5 times in total.
C1_AtMostFiveAttempts == attempts <= 5

\* C1, amended: a request is attempted at most 6 times in total (the first
\* attempt plus at most RetryTotal = 5 retries), and the sixth attempt always
\* ends it with an outcome.
C1_AtMostSixAttempts ==
    /\ attempts <= RetryTotal + 1
    /\ attempts = RetryTotal + 1 => outcome # NoOutcome

\* a request that used all six attempts and was reported as failed
C1_SixAttemptsMade ==
    /\ req # NoReq
    /\ attempts = 6
    /\ outcome.type = "RetryError"

\* C2: after four 429 answers in a row (the last one without a Retry-After
\* header that cannot be read) the request is still being sent, and a
\* 200 on the fifth attempt is returned as a success; a request answered 429
\* six times in a row has ended with the retry error carrying status 429; and
\* a request that only ever got 429 never ends in a success.
C2_RetryThenSuccessOrExhaustion ==
    /\ (Only429 /\ attempts = 4 /\ ~sleep_raises(last.retry_after)) => outcome = NoOutcome
    /\ (Answered /\ attempts = 5 /\ prior429 /\ last.status_code = 200)
          => (outcome.type = "response" /\ outcome.status_code = 200
              /\ ~Raises(outcome))
    /\ (Only429 /\ attempts >= 6)
          => (outcome.type = "RetryError" /\ outcome.status_code = 429)
    /\ (Only429 /\ outcome # NoOutcome) => Raises(outcome)
    /\ error.type = "RetryError" => error.status_code = 429

\* four 429 answers, then a 200 that is handed to the caller
C2_FourRateLimitsThenOk ==
    /\ Answered
    /\ attempts = 5
    /\ prior429
    /\ last.status_code = 200
    /\ outcome.type = "response"
    /\ ~Raises(outcome)

\* C3 as stated: a response with a non-2xx status other than 429 is never
\* retried; it ends the request and is raised as an HTTP error.
C3_OtherStatusNeverRetried ==
    (Answered /\ ~Is2xx(last.status_code) /\ last.status_code # 429)
       => (outcome.type = "response" /\ Raises(outcome))

\* a 413 or 503 that carries a Retry-After header with a value
RetryAfterAnswer(r) == r.status_code \in {413, 503} /\ r.retry_after \notin {None, Str("")}

\* what the mounted Retry does instead: only a response with a 4xx or 5xx
\* status other than 429, and other than a 413 or 503 carrying a Retry-After
\* header that is not empty, is never retried (a 503 whose Retry-After header
\* is empty included): it ends the request on the attempt it answers and is
\* raised as an HTTP error with that status.
C3_OtherStatusNotRetriedUnlessRetryAfter ==
    /\ (Answered /\ raise_for_status(last.status_code) /\ last.status_code # 429
           /\ ~RetryAfterAnswer(last))
          => (outcome.type = "response" /\ outcome.status_code = last.status_code
              /\ Raises(outcome))
    /\ (error.type = "HTTPError" => raise_for_status(error.status_code))

\* a 500 on the first attempt of an activation request, handed back at once
C3_ServerErrorHandedBack ==
    /\ Answered
    /\ req.kind = "activate"
    /\ attempts = 1
    /\ last.status_code = 500
    /\ outcome.type = "response"
    /\ Raises(outcome)

(***************************************************************************)
(* search                                                                  *)
(***************************************************************************)
RECURSIVE ChainFrom(_)
\* the features of the pages reached from page p by following _links._next
ChainFrom(p) ==
    pages[p].features \o
       (IF Truthy(pages[p].next) THEN ChainFrom(pages[p].next.page) ELSE <<>>)

IsPrefix(s, t) == Len(s) <= Len(t) /\ s = SubSeq(t, 1, Len(s))

\* C4: what search has yielded is always a prefix of the concatenation of the
\* features lists of the pages reached from the initial response, and once
\* the generator has ended without an error it is exactly that concatenation
\* (same items, same order, duplicates kept).
C4_SearchYieldsConcatenation ==
    prog = <<"search">> =>
       /\ IsPrefix(yielded, ChainFrom(1))
       /\ (gen = "done" /\ error = NoError) => yielded = ChainFrom(1)

\* 3 pages of 2 features, the 3rd without a next link: 6 features yielded
C4_ThreePagesOfTwo ==
    /\ prog = <<"search">>
    /\ Len(pages) = 3
    /\ \A p \in 1..3 : Len(pages[p].features) = 2
    /\ pages[3].next = NoLink
    /\ gen = "done"
    /\ error = NoError
    /\ Len(yielded) = 6
    /\ results = yielded

(***************************************************************************)
(* activate, wait_for_active, download                                     *)
(***************************************************************************)
\* C5: when activate has fetched a feature's assets, the next request it
\* sends is the activation request of that feature if and only if the fetched
\* status is 'inactive'; an activation request in flight always belongs to a
\* feature whose fetched status was 'inactive'.
C5_ActivationIffInactive ==
    /\ [](req.kind = "activate" =>
             (pc = "act_activate" /\ assets.status = "inactive"
              /\ req.feature = results[i]))
    /\ [][ (pc = "act_fetch" /\ pc' # "act_fetch" /\ ~Raises(outcome))
             => ((req'.kind = "activate") <=> (outcome.body.status = "inactive")) ]_vars

\* the activation request of a feature fetched as 'inactive' has been accepted
C5_ActivationRequested ==
    /\ pc = "act_activate"
    /\ req.kind = "activate"
    /\ assets.status = "inactive"
    /\ attempts >= 1
    /\ last.status_code = 202

\* C6: at the end of every pass of the loop every position of results has
\* been fetched once per pass, and wait_for_active returns only at the end of
\* a pass in which every feature was reported 'active' (so that every asset
\* is active when it returns).
C6_WaitPollsAllUntilAllActive ==
    /\ []((pc = "wait_while" /\ round >= 1) =>
             /\ Len(active) = Len(results)
             /\ \A j \in 1..Len(results) : polls[j] = round)
    /\ [][ (pc = "wait_while" /\ pc' = "idle") =>
             /\ round >= 1
             /\ \A j \in 1..Len(results) :
                   /\ active[j]
                   /\ polls[j] = round
                   /\ status[results[j]] = "active" ]_vars

\* two features, all reported active in the fifth pass, both fetched 5 times
C6_ReturnsAfterFifthRound ==
    /\ pc = "wait_while"
    /\ Len(results) = 2
    /\ results[1] # results[2]
    /\ round = 5
    /\ all(active)
    /\ polls[1] = 5
    /\ polls[2] = 5

\* C7: with a deadline of PollDeadline poll rounds, wait_for_active starts no
\* further round once the deadline has elapsed.
C7_NoPollAfterDeadline ==
    pc \in {"wait_for", "wait_fetch"} => round <= PollDeadline

\* C8: an activation request answered 401 raises an error of another type
\* than the HTTP error an activation request answered 500 raises.
C8_PermissionErrorDistinct ==
    (error.kind = "activate" /\ error.status_code = 401) =>
       error.type # ErrorOf([type |-> "response", status_code |-> 500], "activate").type

\* C9: in the pipeline activate, wait_for_active, download, every assets
\* resource download fetches reports 'active' (with its location), so the
\* location it reads is never that of a non-active asset.
C9_DownloadReadsActiveOnly ==
    prog = Pipeline =>
       /\ (pc = "dl_fetch" /\ outcome # NoOutcome /\ ~Raises(outcome))
             => (outcome.body.status = "active" /\ outcome.body.location)
       /\ pc \in {"dl_get", "dl_copy"} => assets.status = "active"
       /\ error.kind # "location"

\* the pipeline has read the location of an active asset and requested it
C9_LocationRead ==
    /\ prog = Pipeline
    /\ pc = "dl_get"
    /\ assets.status = "active"
    /\ req.kind = "download"
    /\ req.feature = results[i]

\* the chunks of a complete body of n chunks
Chunks(n) == [c \in 1..n |-> c]

InDownload == pc \in {"dl_start", "dl_for", "dl_fetch", "dl_get", "dl_copy", "dl_yield"}

\* C10: download yields the file name of feature j as its j-th element; a
\* request for position i is only made once the caller has asked for the i-th
\* element and the files of the i-1 earlier positions have been yielded; while
\* the generator is suspended no request is in flight; and a name is yielded
\* only when the copy has ended and all that the stream delivered is in the
\* file.
C10_DownloadSequentialAndLazy ==
    /\ [](InDownload =>
             /\ Len(yielded) <= Len(results)
             /\ \A j \in 1..Len(yielded) : yielded[j] = results[j]
             /\ req # NoReq => (gen = "running" /\ pulls = i /\ Len(yielded) = i - 1)
             /\ gen = "suspended" => (req = NoReq /\ Len(yielded) = pulls)
             /\ pc = "dl_yield" => (Len(yielded) = i /\ files[yielded[i]].exists))
    /\ [][ (pc = "dl_copy" /\ yielded' # yielded) =>
             /\ yielded' = Append(yielded, results[i])
             /\ files[results[i]].data = Chunks(written)
             /\ gen' = "suspended" ]_vars
    /\ []((prog = <<"download">> /\ gen = "done" /\ error = NoError)
             => Len(yielded) = Len(results))

\* the second file has been written and yielded, after the first
C10_SecondFileYielded ==
    /\ pc = "dl_yield"
    /\ gen = "suspended"
    /\ i = 2
    /\ pulls = 2
    /\ yielded = <<results[1], results[2]>>
    /\ results[1] # results[2]
    /\ files[results[1]].exists
    /\ files[results[2]].exists

\* the file name download derives from the response in hand
Filename == NameOf(findall(outcome.body.disposition)[1])

\* C11: while download copies a body, the file holds exactly the chunks that
\* have arrived, in arrival order, and every write adds one chunk; when the
\* stream has delivered the whole body, the yielded name is the filename token
\* of the Content-Disposition header and the file of that name holds the whole
\* body (its length is the body's length).
C11_ChunkedWriteInOrder ==
    /\ [](pc = "dl_copy" =>
             /\ files[Filename].exists
             /\ files[Filename].data = Chunks(written)
             /\ written <= outcome.body.chunks)
    /\ [][ (pc = "dl_copy" /\ files' # files) =>
             /\ Len(files'[Filename].data) = Len(files[Filename].data) + 1
             /\ \A f \in FeatIds \ {Filename} : files'[f] = files[f] ]_vars
    /\ [][ (pc = "dl_copy" /\ yielded' # yielded /\ written = outcome.body.chunks) =>
             LET name == yielded'[Len(yielded')] IN
               /\ Len(yielded') = Len(yielded) + 1
               /\ outcome.body.disposition =
                     <<"attachment", ";", "filename=", "dq", name, "dq">>
               /\ files[name].data = Chunks(outcome.body.chunks)
               /\ Len(files[name].data) = outcome.body.chunks ]_vars

\* a body of two chunks has arrived whole and is in the file, in order
C11_TwoChunksWritten ==
    /\ pc = "dl_copy"
    /\ outcome.body.chunks = 2
    /\ written = 2
    /\ files[Filename].data = <<1, 2>>

\* C12: when the stream of a body ends or breaks after some but not all of
\* its chunks were written, download raises an error and does not yield the
\* name of the truncated file.
C12_StreamFailureSurfaced ==
    [][ (pc = "dl_copy" /\ written >= 1 /\ written < outcome.body.chunks
           /\ written' # written + 1)
          => (error' # NoError /\ yielded' = yielded) ]_vars

\* a header without a filename="..." token: no filename= followed by a quote,
\* at least one token, and a closing quote
NoFilenameToken(d) ==
    ~\E p \in 1..Len(d), q \in 1..Len(d) :
        /\ d[p] = "filename="
        /\ p + 1 <= Len(d)
        /\ d[p + 1] = "dq"
        /\ q >= p + 3
        /\ d[q] = "dq"

\* C13: when the download response (a 2xx) has no Content-Disposition header
\* or the header has no filename="..." token, download ends with a KeyError
\* for the header or an IndexError for the file name, and that step opens and
\* writes no file and yields nothing; a file is only ever being written for a
\* header that has the token.
C13_MalformedHeaderFailsBeforeOpen ==
    /\ [][ (pc = "dl_get" /\ pc' # "dl_get" /\ outcome # NoOutcome /\ ~Raises(outcome)
              /\ NoFilenameToken(outcome.body.disposition))
             => /\ pc' = "raised"
                /\ gen' = "done"
                /\ error'.type = (IF outcome.body.disposition = <<>>
                                   THEN "KeyError" ELSE "IndexError")
                /\ files' = files
                /\ yielded' = yielded ]_vars
    /\ [](pc = "dl_copy" => ~NoFilenameToken(outcome.body.disposition))
    /\ [](error.kind \in {"Content-Disposition", "filename"} => pc = "raised")

\* a header without the token ended download before any file existed
C13_NoTokenRejected ==
    /\ pc = "raised"
    /\ error.type = "IndexError"
    /\ error.kind = "filename"
    /\ yielded = <<>>
    /\ \A f \in FeatIds : ~files[f].exists

(***************************************************************************)
(* setup_session and the credentials of the requests                       *)
(***************************************************************************)
\* C14: setup_session called without an api_key takes the key from
\* PL_API_KEY; when the variable is not set either it fails with a
\* configuration error, and no Session whose user name is None exists.
C14_NoSessionWithoutCredential ==
    /\ (api_key = None /\ environ.PL_API_KEY # None)
          => session.auth[1] = environ.PL_API_KEY
    /\ (api_key = None /\ environ.PL_API_KEY = None)
          => "error" \in DOMAIN session
    /\ "auth" \in DOMAIN session => session.auth[1] # None

\* C15: on a Session that holds an api key, every request in flight was
\* prepared with basic authentication of that key and the empty password, and
\* every attempt made for it, the first and each retry, carried exactly that;
\* on a Session built without a key the user name sent is the text 'None'.
C15_EveryAttemptAuthenticated ==
    LET credentials == [basic |-> TRUE,
                        user |-> IF session.auth[1] = None THEN Str("None")
                                 ELSE session.auth[1],
                        password |-> Str("")]
    IN  /\ req # NoReq => req.auth = credentials
        /\ Answered => sent = credentials
        /\ session.auth[1] = (IF api_key # None THEN api_key ELSE environ.PL_API_KEY)

\* the third attempt of a request, after two 429, carried the key the caller
\* passed to setup_session
C15_RetryCarriedKey ==
    /\ api_key = Str("key")
    /\ Answered
    /\ attempts = 3
    /\ prior429
    /\ sent = [basic |-> TRUE, user |-> Str("key"), password |-> Str("")]

(***************************************************************************)
(* Errors                                                                  *)
(***************************************************************************)
\* C16: when the initial search request or a next-page request ends in a 4xx
\* or 5xx response, or in exhausted retries, search raises that error (an
\* HTTPError, or a RetryError for the retries; an InvalidHeader when a retry
\* met a Retry-After header it cannot read) and ends; once it has raised,
\* no request is sent any more and what it has yielded stays as it is: the
\* features already yielded, in order, and nothing after them.
C16_SearchErrorEndsSearch ==
    /\ []((prog = <<"search">> /\ error # NoError) =>
             /\ error.type \in {"HTTPError", "RetryError", "InvalidHeader"}
             /\ error.kind \in {"search", "page"}
             /\ pc = "raised"
             /\ gen = "done"
             /\ req = NoReq
             /\ IsPrefix(yielded, ChainFrom(1)))
    /\ [][ (pc \in {"s_posted", "s_get"} /\ pc' # pc /\ outcome # NoOutcome
              /\ Raises(outcome))
             => (error' # NoError /\ yielded' = yielded /\ req' = NoReq) ]_vars
    /\ [][ (prog = <<"search">> /\ error # NoError)
             => (error' = error /\ yielded' = yielded /\ req' = NoReq) ]_vars

\* the request for page 2 of 3 failed after the two features of page 1 were
\* yielded: page 3 is never asked for
C16_SecondPageFailed ==
    /\ prog = <<"search">>
    /\ Len(pages) = 3
    /\ error.kind = "page"
    /\ error.type = "HTTPError"
    /\ pc = "raised"
    /\ next_url = Url(2)
    /\ yielded = pages[1].features
    /\ Len(yielded) = 2

\* C17: an error on a feature during activate, wait_for_active or download
\* ends the call at once: the step that raises it sends nothing, moves to no
\* other feature and leaves the files, the yielded names and the server's
\* asset states as they are; after it no request is sent any more, no file
\* or yielded name changes, and no asset goes back to 'inactive'.
C17_FailFast ==
    /\ []((prog # <<"search">> /\ error # NoError) => (pc = "raised" /\ req = NoReq))
    /\ [][ (prog # <<"search">> /\ error = NoError /\ error' # NoError)
             => /\ req' = NoReq
                /\ i' = i
                /\ files' = files
                /\ yielded' = yielded
                /\ status' = status ]_vars
    /\ [][ (prog # <<"search">> /\ error # NoError)
             => /\ error' = error
                /\ req' = NoReq
                /\ i' = i
                /\ files' = files
                /\ yielded' = yielded ]_vars
    /\ [][ \A f \in FeatIds : status[f] # "inactive" => status'[f] # "inactive" ]_vars

\* download failed on the second of two features: the file of the first is
\* on disk in full and its name was yielded
C17_SecondDownloadFailed ==
    /\ prog = <<"download">>
    /\ Len(results) = 2
    /\ results[1] # results[2]
    /\ error # NoError
    /\ pc = "raised"
    /\ i = 2
    /\ yielded = <<results[1]>>
    /\ files[results[1]].data = <<1, 2>>

(***************************************************************************)
(* activate called twice                                                   *)
(***************************************************************************)
TwoActivates == <<"activate", "activate">>

\* C18: when activate has run to its end on a list of features, none of
\* their assets is 'inactive' any more, and a second activate on the same
\* list sends no activation request and changes no asset state on the server
\* (the only changes while it runs are the server's own activating ->
\* active).
C18_ActivateIdempotent ==
    /\ []((prog = TwoActivates /\ cell >= 2) =>
             /\ \A j \in 1..Len(results) : status[results[j]] # "inactive"
             /\ req.kind # "activate")
    /\ [][ (prog = TwoActivates /\ cell >= 2 /\ status' # status)
             => /\ UNCHANGED <<req, attempts>>
                /\ \E f \in FeatIds :
                      /\ status[f] = "activating"
                      /\ status' = [status EXCEPT ![f] = "active"] ]_vars

\* both calls of activate have ended: the asset of the feature is being
\* activated, and an asset that is not in the list is still inactive
C18_SecondActivateDone ==
    /\ prog = TwoActivates
    /\ cell = 3
    /\ pc = "idle"
    /\ Len(results) = 1
    /\ status[results[1]] = "activating"
    /\ \E f \in FeatIds : status[f] = "inactive"

(***************************************************************************)
(* The retry budget under concurrent use                                   *)
(***************************************************************************)
\* C19: of the requests that the threads send through the one Session at the
\* same time, each has its own retry budget: the total left to a request is
\* RetryTotal minus the retries of that request alone, a request in flight
\* has been answered at most RetryTotal times, a step changes the request of
\* one thread only, and a call ends in the retry error exactly when its own
\* request got a retried answer with no retry left, on its sixth attempt.
C19_RetryBudgetPerRequest ==
    /\ [](\A w \in Threads : workers[w].state = "sending" =>
             /\ workers[w].total = RetryTotal - workers[w].retried
             /\ workers[w].retried = workers[w].attempts
             /\ workers[w].attempts <= RetryTotal
             /\ workers[w].total >= 0)
    /\ [][ \A w \in Threads : workers'[w] # workers[w] =>
             \A v \in Threads \ {w} : workers'[v] = workers[v] ]_vars
    /\ [][ \A w \in Threads :
             (workers[w].state = "sending" /\ workers'[w].state = "idle") =>
                /\ (futures'[workers[w].task].state = "RetryError"
                      => workers[w].attempts = RetryTotal)
                /\ futures'[workers[w].task].state
                      \in {"ok", "HTTPError", "RetryError", "InvalidHeader"}
                /\ \A t \in DOMAIN futures \ {workers[w].task} : futures'[t] = futures[t]
           ]_vars

\* two requests in flight at once: one has used up its five retries, the
\* other has been answered 429 once and has four retries left
C19_TwoBudgetsInFlight ==
    /\ workers[1].state = "sending"
    /\ workers[2].state = "sending"
    /\ workers[1].retried = 5
    /\ workers[1].total = 0
    /\ workers[2].retried = 1
    /\ workers[2].total = 4

(***************************************************************************)
(* The delays between the attempts (in tenths of a second)                 *)
(***************************************************************************)
\* a request that got 429 on all its n attempts so far and is being retried
Retrying429(n) == Only429 /\ attempts = n /\ outcome = NoOutcome

\* C20 as stated: the delay before retry n of a request that keeps receiving
\* 429 is 0.2 * 2^(n-1) s: 0.2, 0.4, 0.8, 1.6 s for n = 1..4.
C20_DelayDoublesFromFirstRetry ==
    /\ Retrying429(1) => delay = [source |-> "backoff", tenths |-> 2]
    /\ Retrying429(2) => delay = [source |-> "backoff", tenths |-> 4]
    /\ Retrying429(3) => delay = [source |-> "backoff", tenths |-> 8]
    /\ Retrying429(4) => delay = [source |-> "backoff", tenths |-> 16]

\* C20, amended: for a request that keeps receiving 429, the delay before
\* retry 1 is 0 and the delay before retry n >= 2 is 0.2 * 2^(n-1) s (0.4, 0.8,
\* 1.6, 3.2 s for n = 2..5), a function of n alone, when the 429 has no
\* Retry-After header or one that asks for a wait of 0; a 429 whose
\* Retry-After header asks for a wait above 0 is followed by that wait; a 429
\* whose Retry-After header cannot be read (an empty one included) ends the
\* request with an error,
\* without a wait; and a request that is not being retried sleeps for nothing.
C20_DelayDoublesFromSecondRetry ==
    /\ \A n \in 1..RetryTotal :
          (Retrying429(n) /\ last.retry_after \in {None, Str("0")}) =>
             /\ delay.source = "backoff"
             /\ delay.tenths = (CASE n = 1 -> 0 [] n = 2 -> 4 [] n = 3 -> 8
                                  [] n = 4 -> 16 [] n = 5 -> 32)
    /\ \A n \in 1..RetryTotal :
          (Retrying429(n) /\ last.retry_after = Str("1"))
             => delay = [source |-> "Retry-After", tenths |-> 10]
    /\ (Only429 /\ req.method = "GET" /\ attempts <= RetryTotal
           /\ last.retry_after \in {Str("soon"), Str("")})
          => (outcome = InvalidHeader(429) /\ delay = NoDelay)
    /\ (req = NoReq \/ outcome # NoOutcome \/ attempts = 0) => delay = NoDelay

\* the fourth 429 in a row, with Retry-After: 0: 1.6 s before the fifth attempt
C20_FourthRetryWaits ==
    /\ Retrying429(4)
    /\ last.retry_after = Str("0")
    /\ delay = [source |-> "backoff", tenths |-> 16]

(***************************************************************************)
(* search: termination and laziness                                        *)
(***************************************************************************)
\* C21: search sends the POST once, before anything is yielded; a request for
\* a page is the request for the page the link of the page in hand names, and
\* the pages named by next_url strictly go up the chain, so no page is asked
\* for twice; at the first page whose link is None or '' search sends nothing
\* more and ends; and run to its end on a finite chain, search always ends.
C21_SearchTerminates ==
    /\ [](req.kind = "page" =>
             /\ pc = "s_get"
             /\ req.page = next_url.page
             /\ req.page \in 2..Len(pages)
             /\ body.next = next_url)
    /\ [](req.kind = "search" => (pc = "s_posted" /\ yielded = <<>> /\ pulls = 1))
    /\ [][ (Truthy(next_url) /\ next_url' # next_url)
             => (Truthy(next_url') => next_url'.page = next_url.page + 1) ]_vars
    /\ [][ (pc = "s_while" /\ ~Truthy(next_url) /\ pc' # pc)
             => (pc' = "idle" /\ gen' = "done" /\ req' = NoReq) ]_vars
    /\ [](gen = "done" => req = NoReq)
    /\ <>(gen = "done")

\* search has ended without an error on a chain of three pages
C21_ThreePagesDone ==
    /\ Len(pages) = 3
    /\ gen = "done"
    /\ error = NoError
    /\ pc = "idle"
    /\ ~Truthy(next_url)
    /\ body = pages[3]

InSearch ==
    pc \in {"s_start", "s_post", "s_posted", "s_for_first", "s_yield_first",
            "s_while", "s_get", "s_for", "s_yield"}

\* the last n elements of a sequence
LastOf(s, n) == SubSeq(s, Len(s) - n + 1, Len(s))

\* C22: search has a request in flight only while the caller is waiting for
\* an element it asked for and has not got yet; the request for a next page
\* is sent only when every feature of the page in hand has been handed to
\* the caller; and while the generator is suspended at a yield, whatever the
\* caller does or does not do, no request is sent.
C22_SearchPullBased ==
    /\ []((InSearch /\ req # NoReq) =>
             /\ gen = "running"
             /\ pulls = Len(yielded) + 1)
    /\ [](req.kind = "page" =>
             /\ k = Len(body.features) + 1
             /\ Len(yielded) >= Len(body.features)
             /\ LastOf(yielded, Len(body.features)) = body.features)
    /\ []((InSearch /\ gen = "suspended") => (req = NoReq /\ pulls = Len(yielded)))
    /\ [][ (InSearch /\ gen = "suspended" /\ pulls' = pulls) => UNCHANGED vars ]_vars

\* the caller has taken the first of the two features of page 1 and has not
\* asked for more: page 2 exists and no request is in flight
C22_StoppedInFirstPage ==
    /\ prog = <<"search">>
    /\ Len(pages) >= 2
    /\ Len(pages[1].features) = 2
    /\ pc = "s_yield_first"
    /\ gen = "suspended"
    /\ pulls = 1
    /\ yielded = <<pages[1].features[1]>>
    /\ req = NoReq

(***************************************************************************)
(* The retry policy and the HTTP method                                    *)
(***************************************************************************)
\* C23: a 429 answer is retried whatever the method of the request: as long
\* as retries are left, a request whose latest answer was 429, the POST of
\* search included, is still being sent.
C23_RetryWhateverMethod ==
    (Answered /\ req.method = "POST" /\ last.status_code = 429
        /\ last.retry_after = None /\ attempts <= RetryTotal)
       => outcome = NoOutcome

(***************************************************************************)
(* The Session after setup_session                                         *)
(***************************************************************************)
\* C24: no operation changes the Session: at every moment its credential and
\* its retry policy (attempt limit, retried statuses, backoff factor) are the
\* ones setup_session gave it, and no step alters either.
C24_SessionUnchanged ==
    /\ [](session = setup_session(api_key, environ))
    /\ [][ /\ session'.auth = session.auth
           /\ session'.max_retries = session.max_retries ]_vars

\* a request of the pipeline's download has used a retry, and the Session
\* still holds the full retry budget
C24_RetriedWithSessionIntact ==
    /\ req # NoReq /\ req.kind = "download"
    /\ attempts >= 2 /\ total = RetryTotal - 1
    /\ session.max_retries.total = RetryTotal
    /\ session.auth = <<Str("envkey"), Str("")>>

(***************************************************************************)
(* wait_for_active on an empty list                                        *)
(***************************************************************************)
InWait == pc \in {"wait_while", "wait_for", "wait_fetch"}

\* C26: wait_for_active called with an empty list of results sends no
\* request, makes one pass of its loop (its 'active' list starts as [False],
\* the pass makes it []), and then returns without an error.
C26_EmptyListOnePass ==
    /\ []((InWait /\ results = <<>>)
            => /\ req = NoReq
               /\ pc # "wait_fetch"
               /\ round <= 1
               /\ active = (IF pc = "wait_while" /\ round = 1 THEN <<>> ELSE <<FALSE>>))
    /\ [][ (InWait /\ results = <<>> /\ ~InWait')
            => /\ round = 1
               /\ pc = "wait_while"
               /\ polls = <<>>
               /\ pc' = "idle"
               /\ cell' = cell + 1
               /\ error' = NoError ]_vars

\* wait_for_active has returned from a call with an empty list
C26_EmptyWaitReturned ==
    /\ prog = Pipeline /\ results = <<>>
    /\ cell = 3 /\ pc = "idle" /\ error = NoError

(***************************************************************************)
(* wait_for_active: does it return?                                        *)
(***************************************************************************)
\* every asset of results is 'active' on the server
AllActiveOnServer == \A j \in 1..Len(results) : status[results[j]] = "active"

\* every asset of results has been activated
AllActivated == \A j \in 1..Len(results) : status[results[j]] \in {"activating", "active"}

\* wait_for_active has returned
WaitReturned == prog = Pipeline /\ cell >= 3

\* a status fetch of wait_for_active failed and its error ended the call
WaitRaised == prog = Pipeline /\ cell = 2 /\ pc = "raised"

\* the passes the model follows are used up with an asset seen not active
WaitOutOfRounds == pc = "wait_while" /\ round = MaxRounds /\ ~all(active)

\* C25: wait_for_active runs after activate, so on assets that are all
\* activated.  No asset leaves 'active' and, on a server that finishes every
\* activation, every asset of results gets there.  From the moment they are
\* all 'active', wait_for_active returns, at the latest at the end of the
\* next pass, unless a status fetch fails and its error ends the call; and
\* from its call on it returns, fails in that way, or is still polling assets
\* that were not active when the passes followed here are used up.  It never
\* returns while an asset of results is not 'active'.
C25_WaitReturnsIffAllActive ==
    /\ [](InWait => AllActivated)
    /\ [][ \A f \in FeatIds : status[f] = "active" => status'[f] = "active" ]_vars
    /\ (InWait ~> (AllActiveOnServer \/ WaitRaised))
    /\ ((InWait /\ AllActiveOnServer /\ round < MaxRounds) ~> (WaitReturned \/ WaitRaised))
    /\ (InWait ~> (WaitReturned \/ WaitRaised \/ WaitOutOfRounds))
    /\ [][ (InWait /\ ~AllActiveOnServer) => ~WaitReturned' ]_vars
    /\ []((InWait /\ ~AllActiveOnServer) => ~WaitReturned)

\* the second pass saw both assets active after a first pass that did not:
\* wait_for_active returns
C25_ReturnedAfterActivation ==
    /\ pc = "wait_while" /\ round = 2 /\ all(active)
    /\ Len(results) = 2 /\ results[1] # results[2]
    /\ AllActiveOnServer

====
